---------------------------- MODULE Spec2Model ----------------------------
(***************************************************************************)
(* Model of src/abilities/power-meter.js (homebridge-shelly):              *)
(* PowerMeterAbility and PowerConsumptionAbility attached to one accessory *)
(* of one device.  The device is an event emitter with named numeric       *)
(* properties; the platform accessory holds a list of services; the        *)
(* history service keeps an append-only log of entries.                    *)
(*                                                                         *)
(* Every method of the two classes is an operator from a world record to   *)
(* a world record, so that a method can in principle touch anything the    *)
(* JavaScript object graph lets it reach (the device included).  The       *)
(* variable `last` records what the last operation did: the listeners it   *)
(* registered and removed, the handlers that ran, the characteristic       *)
(* writes and the history entries it produced.                             *)
(***************************************************************************)
EXTENDS Integers, Sequences, FiniteSets, TLC

VARIABLES
  device,     \* the device's property values: [Props -> Int]
  listeners,  \* the device emitter's listeners: [event -> Seq(<<fn, context>>)]
  services,   \* platformAccessory.services: Seq of service records
  nextId,     \* identity of the next service object created
  pm,         \* the PowerMeterAbility instance
  pc,         \* the PowerConsumptionAbility instance
  history,    \* addEntry calls received by the history service, in order
  changes,    \* number of property changes of the device so far
  constructed, \* number of FakeGatoHistoryService objects constructed so far
  last        \* what the last operation did

vars == <<device, listeners, services, nextId, pm, pc, history, changes,
         constructed, last>>

----------------------------------------------------------------------------
(* Bounds of the model *)

Slack == 1          \* readings lie this far from the clamp limits
MaxTicks == 1       \* clock readings are 0, TickMs, ..., MaxTicks * TickMs
TickMs == 500       \* one clock step, in milliseconds
MaxSetups == 2      \* setup calls of one ability without a detach in between
MaxServices == 2    \* services on the accessory before any setup
MaxChanges == 1     \* property changes of the device in one run

(* Program constants *)

MaxConsumption == 65535
MsPerSecond == 1000

----------------------------------------------------------------------------
(* Names *)

Null == "null"

Truthy(x) == x # Null /\ x # ""

PMContext == "PowerMeterAbility"
PCContext == "PowerConsumptionAbility"
OtherContext == "other"

PMConsumptionFn == "PowerMeterAbility._consumptionChangeHandler"
PMElectricCurrentFn == "PowerMeterAbility._electricCurrentChangeHandler"
PMVoltageFn == "PowerMeterAbility._voltageChangeHandler"
PCConsumptionFn == "PowerConsumptionAbility._consumptionChangeHandler"

ConsumptionCharacteristic == "ConsumptionCharacteristic"
ElectricCurrentCharacteristic == "ElectricCurrentCharacteristic"
VoltageCharacteristic == "VoltageCharacteristic"
TotalConsumptionCharacteristic == "TotalConsumptionCharacteristic"

PowerMeterUUID == "PowerMeterService"
HistoryUUID == "FakeGatoHistoryService"
InformationUUID == "AccessoryInformation"

ConsumptionProps == {"power", "energy"}
LevelProps == {"current", "voltage"}
Props == ConsumptionProps \cup LevelProps

Readings == {0 - Slack, Slack, MaxConsumption + Slack}
\* electric current and voltage readings: copied as they are, two suffice
Levels == {0, 1}
Times == {k * TickMs : k \in 0..MaxTicks}

PropValues(p) == IF p \in ConsumptionProps THEN Readings ELSE Levels

ChangeEvent(p) == "change:" \o p

Max(a, b) == IF a > b THEN a ELSE b
Min(a, b) == IF a < b THEN a ELSE b

\* Math.round(n / d) for d > 0: the nearest integer, halves rounded up
MathRound(n, d) == (2 * n + d) \div (2 * d)

Range(s) == {s[i] : i \in 1..Len(s)}

RemoveAt(s, i) == SubSeq(s, 1, i - 1) \o SubSeq(s, i + 1, Len(s))

----------------------------------------------------------------------------
(* Services and characteristics *)

NoChars == [c \in {} |-> 0]

\* Service.setCharacteristic / getCharacteristic(type).setValue(value):
\* the characteristic is added to the service when it is not there yet
SetChar(chars, c, v) ==
  [x \in (DOMAIN chars) \cup {c} |-> IF x = c THEN v ELSE chars[x]]

NewService(id, uuid, by, chars) ==
  [id |-> id, UUID |-> uuid, by |-> by, chars |-> chars]

NoService == NewService(0, "", "", NoChars)

\* A FakeGatoHistoryService instance: a service object of its own (chars),
\* whose field `service` (inner) is the history service on the accessory
NewHistory(id, inner, chars) == [id |-> id, inner |-> inner, chars |-> chars]

NoHistory == NewHistory(0, 0, NoChars)

\* platformAccessory.getService(type): index of the first service of that
\* type, 0 when there is none
GetServiceIndex(svcs, uuid) ==
  IF \E i \in 1..Len(svcs) : svcs[i].UUID = uuid
  THEN CHOOSE i \in 1..Len(svcs) :
         /\ svcs[i].UUID = uuid
         /\ \A j \in 1..(i - 1) : svcs[j].UUID # uuid
  ELSE 0

\* platformAccessory.removeService(s): the services array is spliced in place
RemoveService(svcs, id) ==
  IF \E i \in 1..Len(svcs) : svcs[i].id = id
  THEN RemoveAt(svcs, CHOOSE i \in 1..Len(svcs) : svcs[i].id = id)
  ELSE svcs

----------------------------------------------------------------------------
(* The record of what an operation did *)

Trace(op, prop, value) ==
  [op |-> op, prop |-> prop, value |-> value,
   ons |-> <<>>, offs |-> <<>>, calls |-> <<>>, writes |-> <<>>,
   entries |-> <<>>, ctor |-> 0, atCtor |-> <<>>]

\* now: what new Date().valueOf() returns during the operation
World(op, prop, value, t) ==
  [device |-> device, listeners |-> listeners, services |-> services,
   nextId |-> nextId, pm |-> pm, pc |-> pc, history |-> history,
   now |-> t, ret |-> NoService, retHistory |-> NoHistory,
   constructed |-> constructed, last |-> Trace(op, prop, value)]

Commit(w) ==
  /\ device' = w.device
  /\ listeners' = w.listeners
  /\ services' = w.services
  /\ nextId' = w.nextId
  /\ pm' = w.pm
  /\ pc' = w.pc
  /\ history' = w.history
  /\ constructed' = w.constructed
  /\ last' = w.last

Write(w, obj, id, c, v) ==
  [w EXCEPT !.last.writes = Append(@, [obj |-> obj, id |-> id, char |-> c, value |-> v])]

----------------------------------------------------------------------------
(* The device's event emitter *)

\* device.on(event, fn, context)
DeviceOn(w, ev, fn, ctx) ==
  [w EXCEPT !.listeners[ev] = Append(@, <<fn, ctx>>),
            !.last.ons = Append(@, <<ev, fn, ctx>>)]

\* device.removeListener(event, fn, context): every listener of the event
\* with that function and, when a context is given, that context
DeviceRemoveListener(w, ev, fn, ctx) ==
  [w EXCEPT !.listeners[ev] =
              SelectSeq(@, LAMBDA l : ~(/\ l[1] = fn
                                        /\ (Truthy(ctx) => l[2] = ctx))),
            !.last.offs = Append(@, <<ev, fn, ctx>>)]

----------------------------------------------------------------------------
(* Ability (./base) *)

\* Ability.setup: this.device, accessory, log and platformAccessory are set
AbilityAttach(a) == [a EXCEPT !.attached = TRUE]

\* Ability.detach: they are reset to null
AbilityDetach(a) == [a EXCEPT !.attached = FALSE]

\* Ability._setupEventHandlers
AbilitySetupEventHandlers(w) == w

----------------------------------------------------------------------------
(* PowerMeterAbility *)

\* get service
PMServiceIndex(w) == GetServiceIndex(w.services, PowerMeterUUID)

\* get consumption, with the upper limit forgotten
PMConsumptionNoUpperLimit(w) ==
  Max(w.device[w.pm.consumptionProperty], 0)

\* get consumption
PMConsumption(w) ==
  Min(Max(w.device[w.pm.consumptionProperty], 0), MaxConsumption)

\* get electricCurrent
PMElectricCurrent(w) == w.device[w.pm.electricCurrentProperty]

\* get voltage
PMVoltage(w) == w.device[w.pm.voltageProperty]

\* _createService, with the electric current characteristic forgotten
PMCreateServiceNoCurrent(w) ==
  LET id == w.nextId
      c1 == SetChar(NoChars, ConsumptionCharacteristic, PMConsumption(w))
      w1 == Write(w, "service", id, ConsumptionCharacteristic, PMConsumption(w))
      hasV == Truthy(w.pm.voltageProperty)
      c3 == IF hasV
            THEN SetChar(c1, VoltageCharacteristic, PMVoltage(w))
            ELSE c1
      w3 == IF hasV
            THEN Write(w1, "service", id, VoltageCharacteristic, PMVoltage(w))
            ELSE w1
  IN [w3 EXCEPT !.nextId = id + 1,
                !.ret = NewService(id, PowerMeterUUID, PMContext, c3)]

\* _createService: the new service is left in w.ret
PMCreateService(w) ==
  LET id == w.nextId
      c1 == SetChar(NoChars, ConsumptionCharacteristic, PMConsumption(w))
      w1 == Write(w, "service", id, ConsumptionCharacteristic, PMConsumption(w))
      hasI == Truthy(w.pm.electricCurrentProperty)
      c2 == IF hasI
            THEN SetChar(c1, ElectricCurrentCharacteristic, PMElectricCurrent(w))
            ELSE c1
      w2 == IF hasI
            THEN Write(w1, "service", id, ElectricCurrentCharacteristic,
                       PMElectricCurrent(w))
            ELSE w1
      hasV == Truthy(w.pm.voltageProperty)
      c3 == IF hasV
            THEN SetChar(c2, VoltageCharacteristic, PMVoltage(w))
            ELSE c2
      w3 == IF hasV
            THEN Write(w2, "service", id, VoltageCharacteristic, PMVoltage(w))
            ELSE w2
  IN [w3 EXCEPT !.nextId = id + 1,
                !.ret = NewService(id, PowerMeterUUID, PMContext, c3)]

\* Ability._setupPlatformAccessory: the service is created and added to the
\* platform accessory unless the accessory already has one
PMSetupPlatformAccessory(w) ==
  IF PMServiceIndex(w) = 0
  THEN LET c == PMCreateService(w)
       IN [c EXCEPT !.services = Append(@, c.ret)]
  ELSE w

\* _setupEventHandlers, with the voltage listener forgotten
PMSetupEventHandlersNoVoltage(w) ==
  LET w0 == AbilitySetupEventHandlers(w)
      w1 == DeviceOn(w0, ChangeEvent(w0.pm.consumptionProperty),
                     PMConsumptionFn, PMContext)
  IN IF Truthy(w1.pm.electricCurrentProperty)
     THEN DeviceOn(w1, ChangeEvent(w1.pm.electricCurrentProperty),
                   PMElectricCurrentFn, PMContext)
     ELSE w1

\* _setupEventHandlers
PMSetupEventHandlers(w) ==
  LET w0 == AbilitySetupEventHandlers(w)
      w1 == DeviceOn(w0, ChangeEvent(w0.pm.consumptionProperty),
                     PMConsumptionFn, PMContext)
      w2 == IF Truthy(w1.pm.electricCurrentProperty)
            THEN DeviceOn(w1, ChangeEvent(w1.pm.electricCurrentProperty),
                          PMElectricCurrentFn, PMContext)
            ELSE w1
      w3 == IF Truthy(w2.pm.voltageProperty)
            THEN DeviceOn(w2, ChangeEvent(w2.pm.voltageProperty),
                          PMVoltageFn, PMContext)
            ELSE w2
  IN w3

\* Ability.setup
PMSetupOp(w) ==
  PMSetupEventHandlers(
    PMSetupPlatformAccessory([w EXCEPT !.pm = AbilityAttach(@)]))

\* a change handler of the ability has been called
Called(w, fn, ctx) ==
  [w EXCEPT !.last.calls = Append(@, [fn |-> fn, ctx |-> ctx])]

\* this.service.getCharacteristic(c).setValue(v)
PMSetValue(w, c, v) ==
  LET i == PMServiceIndex(w)
      w1 == [w EXCEPT !.services[i].chars = SetChar(@, c, v)]
  IN Write(w1, "service", w.services[i].id, c, v)

\* _consumptionChangeHandler, writing the event's value as it came
PMConsumptionChangeHandlerRaw(w, newValue) ==
  PMSetValue(Called(w, PMConsumptionFn, PMContext),
             ConsumptionCharacteristic, newValue)

\* _consumptionChangeHandler
PMConsumptionChangeHandler(w, newValue) ==
  PMSetValue(Called(w, PMConsumptionFn, PMContext),
             ConsumptionCharacteristic, PMConsumption(w))

\* _electricCurrentChangeHandler
PMElectricCurrentChangeHandler(w, newValue) ==
  PMSetValue(Called(w, PMElectricCurrentFn, PMContext),
             ElectricCurrentCharacteristic, PMElectricCurrent(w))

\* _voltageChangeHandler
PMVoltageChangeHandler(w, newValue) ==
  PMSetValue(Called(w, PMVoltageFn, PMContext),
             VoltageCharacteristic, PMVoltage(w))

\* detach
PMDetachOp(w) ==
  LET w1 == DeviceRemoveListener(w, ChangeEvent(w.pm.consumptionProperty),
                                 PMConsumptionFn, PMContext)
      w2 == IF Truthy(w1.pm.electricCurrentProperty)
            THEN DeviceRemoveListener(
                   w1, ChangeEvent(w1.pm.electricCurrentProperty),
                   PMElectricCurrentFn, PMContext)
            ELSE w1
      w3 == IF Truthy(w2.pm.voltageProperty)
            THEN DeviceRemoveListener(
                   w2, ChangeEvent(w2.pm.voltageProperty),
                   PMVoltageFn, PMContext)
            ELSE w2
  IN [w3 EXCEPT !.pm = AbilityDetach(@)]

----------------------------------------------------------------------------
(* PowerConsumptionAbility *)

\* get service
PCService(w) == w.pc.service

\* get consumption
PCConsumption(w) ==
  Min(Max(w.device[w.pc.consumptionProperty], 0), MaxConsumption)

\* setup, lines 203-207: for (const s of services) if (s.UUID == UUID)
\* removeService(s).  The array iterator holds an index into the array that
\* removeService splices.
RECURSIVE PCRemoveStale(_, _)
PCRemoveStale(svcs, i) ==
  IF i > Len(svcs)
  THEN svcs
  ELSE IF svcs[i].UUID = HistoryUUID
       THEN PCRemoveStale(RemoveService(svcs, svcs[i].id), i + 1)
       ELSE PCRemoveStale(svcs, i + 1)

\* new FakeGatoHistoryService('energy', platformAccessory, options): the
\* constructor adds the history service to the platform accessory, unless
\* the accessory has one, which it then uses
HistoryConstructor(w) ==
  LET i == GetServiceIndex(w.services, HistoryUUID)
      w1 == [w EXCEPT !.constructed = @ + 1,
                      !.last.ctor = @ + 1, !.last.atCtor = w.services]
  IN IF i = 0
     THEN [w1 EXCEPT
             !.services = Append(@, NewService(w.nextId, HistoryUUID,
                                               PCContext, NoChars)),
             !.nextId = w.nextId + 2,
             !.retHistory = NewHistory(w.nextId + 1, w.nextId, NoChars)]
     ELSE [w1 EXCEPT
             !.nextId = w.nextId + 1,
             !.retHistory = NewHistory(w.nextId, w.services[i].id, NoChars)]

\* _createService: the new history object is left in w.retHistory
PCCreateService(w) ==
  LET w1 == HistoryConstructor(w)
      i == CHOOSE j \in 1..Len(w1.services) :
             w1.services[j].id = w1.retHistory.inner
      w2 == [w1 EXCEPT !.services[i].chars =
                         SetChar(@, TotalConsumptionCharacteristic,
                                 PCConsumption(w))]
  IN Write(w2, "service", w1.retHistory.inner,
           TotalConsumptionCharacteristic, PCConsumption(w))

\* _setupEventHandlers
PCSetupEventHandlers(w) ==
  LET w0 == AbilitySetupEventHandlers(w)
  IN DeviceOn(w0, ChangeEvent(w0.pc.consumptionProperty),
              PCConsumptionFn, PCContext)

\* setup, creating the history service whether or not it has one
PCSetupOpAlwaysCreate(w) ==
  LET w1 == [w EXCEPT !.pc = AbilityAttach(@)]
      r == [w1 EXCEPT !.services = PCRemoveStale(@, 1)]
      c == PCCreateService(r)
      w2 == [c EXCEPT !.pc.service = c.retHistory, !.pc.hasService = TRUE]
  IN PCSetupEventHandlers(w2)

\* setup
PCSetupOp(w) ==
  LET w1 == [w EXCEPT !.pc = AbilityAttach(@)]
      w2 == IF ~w1.pc.hasService
            THEN LET r == [w1 EXCEPT !.services = PCRemoveStale(@, 1)]
                     c == PCCreateService(r)
                 IN [c EXCEPT !.pc.service = c.retHistory,
                              !.pc.hasService = TRUE]
            ELSE w1
  IN PCSetupEventHandlers(w2)

\* service.addEntry(entry); the trace keeps the clock's reading with it
AddEntry(w, e) ==
  [w EXCEPT !.history = Append(@, e),
            !.last.entries = Append(@, [entry |-> e, now |-> w.now])]

\* _consumptionChangeHandler, with the history entry forgotten
PCConsumptionChangeHandlerNoEntry(w, newValue) ==
  LET w1 == Called(w, PCConsumptionFn, PCContext)
      w2 == [w1 EXCEPT !.pc.service.chars =
                         SetChar(@, TotalConsumptionCharacteristic,
                                 PCConsumption(w1))]
  IN Write(w2, "history", PCService(w2).id,
           TotalConsumptionCharacteristic, PCConsumption(w1))

\* _consumptionChangeHandler, with the timestamp truncated to the second
PCConsumptionChangeHandlerFloor(w, newValue) ==
  LET w1 == Called(w, PCConsumptionFn, PCContext)
      w2 == [w1 EXCEPT !.pc.service.chars =
                         SetChar(@, TotalConsumptionCharacteristic,
                                 PCConsumption(w1))]
      w3 == Write(w2, "history", PCService(w2).id,
                  TotalConsumptionCharacteristic, PCConsumption(w1))
  IN AddEntry(w3, [time |-> w3.now \div MsPerSecond,
                   power |-> PCConsumption(w3)])

\* _consumptionChangeHandler, storing the clamped value back on the device
PCConsumptionChangeHandlerStore(w, newValue) ==
  LET w1 == Called(w, PCConsumptionFn, PCContext)
      w2 == [w1 EXCEPT !.pc.service.chars =
                         SetChar(@, TotalConsumptionCharacteristic,
                                 PCConsumption(w1)),
                       !.device[w1.pc.consumptionProperty] = PCConsumption(w1)]
      w3 == Write(w2, "history", PCService(w2).id,
                  TotalConsumptionCharacteristic, PCConsumption(w1))
  IN AddEntry(w3, [time |-> MathRound(w3.now, MsPerSecond),
                   power |-> PCConsumption(w3)])

\* _consumptionChangeHandler
PCConsumptionChangeHandler(w, newValue) ==
  LET w1 == Called(w, PCConsumptionFn, PCContext)
      w2 == [w1 EXCEPT !.pc.service.chars =
                         SetChar(@, TotalConsumptionCharacteristic,
                                 PCConsumption(w1))]
      w3 == Write(w2, "history", PCService(w2).id,
                  TotalConsumptionCharacteristic, PCConsumption(w1))
  IN AddEntry(w3, [time |-> MathRound(w3.now, MsPerSecond),
                   power |-> PCConsumption(w3)])

\* detach, with the removeListener call forgotten
PCDetachOpNoRemove(w) == [w EXCEPT !.pc = AbilityDetach(@)]

\* detach, with the context argument of removeListener forgotten
PCDetachOpNoContext(w) ==
  LET w1 == DeviceRemoveListener(w, ChangeEvent(w.pc.consumptionProperty),
                                 PCConsumptionFn, Null)
  IN [w1 EXCEPT !.pc = AbilityDetach(@)]

\* detach
PCDetachOp(w) ==
  LET w1 == DeviceRemoveListener(w, ChangeEvent(w.pc.consumptionProperty),
                                 PCConsumptionFn, PCContext)
  IN [w1 EXCEPT !.pc = AbilityDetach(@)]

----------------------------------------------------------------------------
(* The device changes a property and emits 'change:<property>' *)

\* the emitter calls fn with `this` bound to context
Dispatch(w, l, newValue) ==
  IF l[2] = PMContext /\ l[1] = PMConsumptionFn
    THEN PMConsumptionChangeHandler(w, newValue)
  ELSE IF l[2] = PMContext /\ l[1] = PMElectricCurrentFn
    THEN PMElectricCurrentChangeHandler(w, newValue)
  ELSE IF l[2] = PMContext /\ l[1] = PMVoltageFn
    THEN PMVoltageChangeHandler(w, newValue)
  ELSE IF l[2] = PCContext /\ l[1] = PCConsumptionFn
    THEN PCConsumptionChangeHandler(w, newValue)
  ELSE w

RECURSIVE EmitLoop(_, _, _)
EmitLoop(w, ls, newValue) ==
  IF ls = <<>>
  THEN w
  ELSE EmitLoop(Dispatch(w, Head(ls), newValue), Tail(ls), newValue)

DeviceChange(w, p, v) ==
  LET w1 == [w EXCEPT !.device[p] = v]
  IN EmitLoop(w1, w1.listeners[ChangeEvent(p)], v)

----------------------------------------------------------------------------
(* The state machine *)

Count(s, x) == Cardinality({i \in 1..Len(s) : s[i] = x})

\* how many times the ability's consumption handler is registered
PMRegistered ==
  Count(listeners[ChangeEvent(pm.consumptionProperty)],
        <<PMConsumptionFn, PMContext>>)
PCRegistered ==
  Count(listeners[ChangeEvent(pc.consumptionProperty)],
        <<PCConsumptionFn, PCContext>>)

InitUUIDs == {InformationUUID, HistoryUUID}

\* the services restored from the accessory cache, in any arrangement
InitServices ==
  {[i \in 1..MaxServices |-> NewService(i, u[i], "cached", NoChars)] :
     u \in [1..MaxServices -> InitUUIDs]}

Events == {ChangeEvent(p) : p \in Props}

\* listeners of other objects on the same device
ForeignListeners ==
  [e \in Events |->
     IF e = ChangeEvent("power") THEN << <<PMConsumptionFn, OtherContext>> >>
     ELSE IF e = ChangeEvent("energy") THEN << <<PCConsumptionFn, OtherContext>> >>
     ELSE IF e = ChangeEvent("voltage") THEN << <<"foreignHandler", OtherContext>> >>
     ELSE <<>>]

Init ==
  /\ device = [p \in Props |-> IF p \in ConsumptionProps THEN Slack ELSE 0]
  /\ listeners = ForeignListeners
  /\ services \in InitServices
  /\ nextId = Len(services) + 1
  /\ \E i \in {Null, "current"}, v \in {Null, "voltage"} :
       pm = [consumptionProperty |-> "power", electricCurrentProperty |-> i,
             voltageProperty |-> v, attached |-> FALSE]
  /\ pc = [consumptionProperty |-> "energy", attached |-> FALSE,
           hasService |-> FALSE, service |-> NoHistory]
  /\ history = <<>>
  /\ changes = 0
  /\ constructed = 0
  /\ last = Trace("Init", "", 0)

PMSetup ==
  /\ PMRegistered < MaxSetups
  /\ Commit(PMSetupOp(World("PMSetup", "", 0, 0)))
  /\ UNCHANGED changes

PMDetach ==
  /\ pm.attached
  /\ Commit(PMDetachOp(World("PMDetach", "", 0, 0)))
  /\ UNCHANGED changes

PCSetup ==
  /\ PCRegistered < MaxSetups
  /\ Commit(PCSetupOp(World("PCSetup", "", 0, 0)))
  /\ UNCHANGED changes

PCDetach ==
  /\ pc.attached
  /\ Commit(PCDetachOp(World("PCDetach", "", 0, 0)))
  /\ UNCHANGED changes

Change(p, v, t) ==
  /\ v # device[p]
  /\ changes < MaxChanges
  /\ changes' = changes + 1
  /\ Commit(DeviceChange(World("Change", p, v, t), p, v))

Next ==
  \/ PMSetup
  \/ PMDetach
  \/ PCSetup
  \/ PCDetach
  \/ \E p \in Props : \E v \in PropValues(p) : \E t \in Times : Change(p, v, t)

Spec == Init /\ [][Next]_vars

----------------------------------------------------------------------------
(* Properties *)

Here == World("", "", 0, 0)

Clamped(v) == Max(0, Min(v, MaxConsumption))

Bit(b) == IF b THEN 1 ELSE 0

\* the writes of the last operation to characteristic c
WritesTo(c) == SelectSeq(last.writes, LAMBDA x : x.char = c)

\* the calls of the last operation to handler fn
CallsOf(fn) == SelectSeq(last.calls, LAMBDA x : x.fn = fn)

\* C1: for every consumption reading v of the device the consumption getter
\* of both abilities returns max(0, min(v, 65535)), and every value written
\* to the consumption or total-consumption characteristic, at seeding and on
\* a change event, lies in 0..65535.
C1_ConsumptionClamped ==
  /\ PMConsumption(Here) = Clamped(device[pm.consumptionProperty])
  /\ PCConsumption(Here) = Clamped(device[pc.consumptionProperty])
  /\ \A i \in 1..Len(last.writes) :
       last.writes[i].char \in
           {ConsumptionCharacteristic, TotalConsumptionCharacteristic}
         => last.writes[i].value \in 0..MaxConsumption

C1_Witness ==
  /\ last.op = "Change"
  /\ last.value > MaxConsumption
  /\ Len(WritesTo(ConsumptionCharacteristic)) > 0
  /\ WritesTo(ConsumptionCharacteristic)[1].value = MaxConsumption

\* C2: each call of _consumptionChangeHandler, of either ability, performs
\* exactly one setValue on that ability's consumption characteristic, and the
\* value written is the clamp of the device's consumption property at that
\* moment.
C2_OneWritePerCall ==
  last.op = "Change" =>
    /\ Len(WritesTo(ConsumptionCharacteristic)) = Len(CallsOf(PMConsumptionFn))
    /\ Len(WritesTo(TotalConsumptionCharacteristic)) = Len(CallsOf(PCConsumptionFn))
    /\ \A i \in 1..Len(last.writes) :
         LET x == last.writes[i]
         IN /\ x.char = ConsumptionCharacteristic
                 => x.value = Clamped(device[pm.consumptionProperty])
            /\ x.char = TotalConsumptionCharacteristic
                 => x.value = Clamped(device[pc.consumptionProperty])

C2_Witness ==
  /\ last.op = "Change"
  /\ last.value > MaxConsumption
  /\ Len(CallsOf(PMConsumptionFn)) = 1
  /\ Len(WritesTo(ConsumptionCharacteristic)) = 1

\* C3: while PowerConsumptionAbility is set up once, every change event of
\* its consumption property appends exactly one entry to the history, whose
\* power is the clamped value written to the characteristic for that event;
\* nothing else appends an entry.
C3_OneEntryPerEvent ==
  [][ /\ (last'.op = "Change" /\ last'.prop = pc.consumptionProperty
            /\ PCRegistered = 1)
         => /\ Len(last'.entries) = 1
            /\ history' = Append(history, last'.entries[1].entry)
            /\ Len(SelectSeq(last'.writes,
                     LAMBDA x : x.char = TotalConsumptionCharacteristic)) = 1
            /\ \A i \in 1..Len(last'.writes) :
                 last'.writes[i].char = TotalConsumptionCharacteristic
                   => /\ last'.entries[1].entry.power = last'.writes[i].value
                      /\ last'.entries[1].entry.power = Clamped(last'.value)
      /\ (last'.op # "Change" \/ last'.prop # pc.consumptionProperty)
         => history' = history
    ]_vars

C3_Witness ==
  /\ last.op = "Change"
  /\ last.prop = pc.consumptionProperty
  /\ last.value > MaxConsumption
  /\ PCRegistered = 1
  /\ Len(last.entries) = 1
  /\ Len(history) = 1

\* C4 as stated: the entry appended for an event at time t (milliseconds)
\* has time = floor(t / 1000).
C4_TimeIsFloor ==
  \A i \in 1..Len(last.entries) :
    last.entries[i].entry.time = last.entries[i].now \div MsPerSecond

\* C4 as amended: the entry appended for an event at time t (milliseconds)
\* has time = t / 1000 rounded to the nearest second, halves upwards: it is
\* floor(t / 1000) when t mod 1000 < 500 and floor(t / 1000) + 1 otherwise.
C4_TimeIsRounded ==
  \A i \in 1..Len(last.entries) :
    LET t == last.entries[i].now
    IN last.entries[i].entry.time =
         IF 2 * (t % MsPerSecond) < MsPerSecond
         THEN t \div MsPerSecond
         ELSE (t \div MsPerSecond) + 1

C4_Witness ==
  /\ Len(last.entries) > 0
  /\ 2 * (last.entries[1].now % MsPerSecond) >= MsPerSecond
  /\ last.entries[1].entry.time = (last.entries[1].now \div MsPerSecond) + 1

\* C5: _setupEventHandlers of PowerMeterAbility registers
\* 1 + [current configured] + [voltage configured] listeners, each on the
\* event 'change:<that property>' with that property's handler.
C5_ListenersRegistered ==
  last.op = "PMSetup" =>
    /\ Len(last.ons) = 1 + Bit(Truthy(pm.electricCurrentProperty))
                         + Bit(Truthy(pm.voltageProperty))
    /\ Range(last.ons) =
         {<<ChangeEvent(pm.consumptionProperty), PMConsumptionFn, PMContext>>}
         \cup (IF Truthy(pm.electricCurrentProperty)
               THEN {<<ChangeEvent(pm.electricCurrentProperty),
                       PMElectricCurrentFn, PMContext>>}
               ELSE {})
         \cup (IF Truthy(pm.voltageProperty)
               THEN {<<ChangeEvent(pm.voltageProperty),
                       PMVoltageFn, PMContext>>}
               ELSE {})

C5_Witness ==
  /\ last.op = "PMSetup"
  /\ Len(last.ons) = 3
  /\ Len(listeners[ChangeEvent("voltage")]) = 2

\* C6: for both abilities, detach passes to removeListener exactly the
\* (event, handler, context) triples that _setupEventHandlers passes to on,
\* after it none of the ability's listeners is left on the device, and the
\* listeners of other handlers or contexts are as they were.
C6_DetachMirrorsAttach ==
  [][ /\ last'.op = "PMDetach"
         => /\ Range(last'.offs) = Range(PMSetupEventHandlers(Here).last.ons)
            /\ \A e \in Events :
                 listeners'[e] =
                   SelectSeq(listeners[e], LAMBDA l : l[2] # PMContext)
      /\ last'.op = "PCDetach"
         => /\ Range(last'.offs) = Range(PCSetupEventHandlers(Here).last.ons)
            /\ \A e \in Events :
                 listeners'[e] =
                   SelectSeq(listeners[e], LAMBDA l : l[2] # PCContext)
    ]_vars

C6_Witness ==
  /\ last.op = "PCDetach"
  /\ PMRegistered = 2
  /\ listeners[ChangeEvent(pc.consumptionProperty)]
       = << <<PCConsumptionFn, OtherContext>> >>

\* C7: across any sequence of setup calls on one PowerConsumptionAbility the
\* history-service constructor is invoked at most once, and the accessory
\* never holds more than one history service created by this ability.
C7_NoDuplicateHistoryService ==
  /\ constructed <= 1
  /\ Cardinality({i \in 1..Len(services) :
                    services[i].by = PCContext}) <= 1

C7_Witness ==
  /\ last.op = "PCSetup"
  /\ last.ctor = 0
  /\ constructed = 1
  /\ PCRegistered = 2

\* the properties PowerMeterAbility was constructed with
PMProps ==
  {pm.consumptionProperty}
  \cup (IF Truthy(pm.electricCurrentProperty)
        THEN {pm.electricCurrentProperty} ELSE {})
  \cup (IF Truthy(pm.voltageProperty) THEN {pm.voltageProperty} ELSE {})

\* C8: the service created by PowerMeterAbility carries the consumption
\* characteristic, and the electric-current (voltage) characteristic if and
\* only if that property was supplied at construction; each is seeded at
\* creation from the device's value of the property (consumption clamped);
\* a change of a property that was not supplied causes no characteristic
\* write.
C8_ServiceCharacteristics ==
  /\ \A i \in 1..Len(services) :
       services[i].by = PMContext =>
         LET c == services[i].chars
         IN /\ ConsumptionCharacteristic \in DOMAIN c
            /\ (ElectricCurrentCharacteristic \in DOMAIN c)
                 <=> Truthy(pm.electricCurrentProperty)
            /\ (VoltageCharacteristic \in DOMAIN c)
                 <=> Truthy(pm.voltageProperty)
            /\ (last.op = "PMSetup" /\ last.writes # <<>>) =>
                 /\ c[ConsumptionCharacteristic]
                      = Clamped(device[pm.consumptionProperty])
                 /\ Truthy(pm.electricCurrentProperty) =>
                      c[ElectricCurrentCharacteristic]
                        = device[pm.electricCurrentProperty]
                 /\ Truthy(pm.voltageProperty) =>
                      c[VoltageCharacteristic] = device[pm.voltageProperty]
                 /\ Len(last.writes) = Cardinality(DOMAIN c)
  /\ (last.op = "PMSetup" /\ last.writes # <<>>) =>
       \E i \in 1..Len(services) : services[i].by = PMContext
  /\ (last.op = "Change"
        /\ last.prop \notin PMProps \cup {pc.consumptionProperty})
       => last.writes = <<>>
  /\ \A i \in 1..Len(last.writes) :
       /\ last.writes[i].char = ElectricCurrentCharacteristic
            => Truthy(pm.electricCurrentProperty)
       /\ last.writes[i].char = VoltageCharacteristic
            => Truthy(pm.voltageProperty)

C8_Witness ==
  /\ last.op = "PMSetup"
  /\ Len(last.writes) = 2
  /\ Truthy(pm.electricCurrentProperty)
  /\ device[pm.consumptionProperty] > MaxConsumption
  /\ WritesTo(ConsumptionCharacteristic)[1].value = MaxConsumption

\* C9: when setup of PowerConsumptionAbility constructs the history service,
\* no service with the history service's UUID is left on the accessory at
\* that moment, whatever the number and placement of such services before.
C9_NoStaleAtConstruction ==
  last.ctor > 0 =>
    \A i \in 1..Len(last.atCtor) : last.atCtor[i].UUID # HistoryUUID

\* C10: setup, detach and the change handlers of both abilities leave the
\* device's property values as they are: the device holds what it held
\* before the operation, or, on a change, the value the device itself set.
C10_DeviceNotMutated ==
  [][ /\ last'.op \in {"PMSetup", "PMDetach", "PCSetup", "PCDetach"}
         => device' = device
      /\ last'.op = "Change"
         => device' = [device EXCEPT ![last'.prop] = last'.value]
    ]_vars

C10_Witness ==
  /\ last.op = "Change"
  /\ last.prop = pc.consumptionProperty
  /\ last.value > MaxConsumption
  /\ Len(CallsOf(PCConsumptionFn)) = 2
  /\ device[pc.consumptionProperty] = last.value

\* C11: over any sequence of setup and detach calls on one
\* PowerConsumptionAbility its consumption handler is registered on the
\* device at most once, so one change event produces at most one
\* characteristic write and one history entry.
C11_RegisteredAtMostOnce ==
  (last.op = "Change" /\ last.prop = pc.consumptionProperty) =>
    /\ PCRegistered <= 1
    /\ Len(WritesTo(TotalConsumptionCharacteristic)) <= 1
    /\ Len(last.entries) <= 1

\* C12: after detach of an ability, and until it is set up again, no change
\* event makes that ability's handlers run, write a characteristic value or
\* append a history entry.
C12_SilentAfterDetach ==
  last.op = "Change" =>
    /\ ~pm.attached =>
         /\ \A i \in 1..Len(last.calls) : last.calls[i].ctx # PMContext
         /\ \A i \in 1..Len(last.writes) :
              last.writes[i].char \notin
                {ConsumptionCharacteristic, ElectricCurrentCharacteristic,
                 VoltageCharacteristic}
    /\ ~pc.attached =>
         /\ \A i \in 1..Len(last.calls) : last.calls[i].ctx # PCContext
         /\ WritesTo(TotalConsumptionCharacteristic) = <<>>
         /\ last.entries = <<>>

C12_Witness ==
  /\ last.op = "Change"
  /\ last.prop = pc.consumptionProperty
  /\ ~pc.attached
  /\ pc.hasService
  /\ PMRegistered = 2

\* the total-consumption value a reader of the accessory's history service
\* sees: the characteristic seeded by _createService
SeededTotalConsumption ==
  LET i == CHOOSE j \in 1..Len(services) : services[j].id = pc.service.inner
  IN services[i].chars[TotalConsumptionCharacteristic]

\* C13: the total-consumption characteristic seeded at creation and the one
\* written on each change event belong to the same service object, so the
\* seeded characteristic holds the clamp of the latest consumption reading
\* handled.
C13_SeededIsWritten ==
  (last.op = "Change" /\ Len(CallsOf(PCConsumptionFn)) > 0) =>
    /\ \A i \in 1..Len(last.writes) :
         last.writes[i].char = TotalConsumptionCharacteristic
           => last.writes[i].id = pc.service.inner
    /\ SeededTotalConsumption = Clamped(device[pc.consumptionProperty])

=============================================================================
